---- MODULE Spec2Model ----
(***************************************************************************)
(* install_externref: the bounded copy of a host string into a 256-byte    *)
(* stack buffer, followed by the hand-off to zig_install_externref.        *)
(* The repository holds the function twice, in src/src/c_bridge.c ("core") *)
(* and in src/src/web/c_bridge.c ("web"); each copy is translated from its *)
(* own file, the web copy's definitions carry the prefix web_.             *)
(***************************************************************************)
EXTENDS Integers, Sequences, FiniteSets, TLC

\* ---------------------------------------------------------------- bounds
\* host strings of length 0..MaxShort, Cap-MaxNear..Cap+MaxOver and LongLen
MaxShort == 3
MaxNear == 1
MaxOver == 2
LongLen == 300
\* a misbehaving length import returns -1 .. -MaxNeg (and INT_MIN)
MaxNeg == 2

\* ------------------------------------------------------ program constants
\* char url_buffer[256]
BufSize == 256
\* url_length < 255 ? url_length : 255
Cap == 255
\* int is 32 bits wide
IntMin == (0 - 2147483647) - 1

Copies == {"core", "web"}

\* ------------------------------------------------------------ host inputs
\* 16-bit code units a host string is built from, one alphabet per string
Alphabets ==
  << <<65>>,
     <<104, 105, 33>>,
     <<256, 62694, 65535, 0, 255, 511>> >>

MkString(L, a) == [k \in 1..L |-> a[((k - 1) % Len(a)) + 1]]

Lengths == (0..MaxShort) \cup ((Cap - MaxNear)..(Cap + MaxOver)) \cup {LongLen}

\* a host string as the two imports see it: the length the host reports and
\* the code units it holds
HostStrings ==
  { [len |-> L, units |-> MkString(L, Alphabets[p])] :
      L \in Lengths, p \in 1..Len(Alphabets) }

\* the int range allows a length import to report a negative value
NegLengths == ((0 - MaxNeg)..(0 - 1)) \cup {IntMin}

BadHostStrings ==
  { [len |-> n, units |-> MkString(MaxShort, Alphabets[p])] :
      n \in NegLengths, p \in 1..Len(Alphabets) }

\* the stack bytes url_buffer is laid over are not initialised
GarbageBytes == {0, 165}

\* ------------------------------------------------------------------ state
VARIABLES
  url_ref,      \* the host string handed to install_externref
  pc,           \* pc[c]: position of copy c inside install_externref
  url_length,   \* the locals of copy c
  copy_length,
  i,
  url_buffer,   \* url_buffer[c][k], k in 0..255
  trace,        \* trace[c]: host queries, buffer writes and sink calls, in order
  sinkCalls     \* sinkCalls[c]: what zig_install_externref received

vars == <<url_ref, pc, url_length, copy_length, i, url_buffer, trace, sinkCalls>>

\* ---------------------------------------------------------------- imports
js_string_length(string) == string.len

\* the indices charCodeAt answers; the import traps on any other
InString(string, index) == (index + 1) \in DOMAIN string.units

js_string_charCodeAt(string, index) ==
  IF InString(string, index) THEN string.units[index + 1] ELSE 0 - 1

\* the external sink: records the bytes behind the pointer and the length
zig_install_externref(calls, url_str, length) ==
  Append(calls, [data |-> url_str, count |-> length])

\* ---------------------------------------------------------------- helpers
Event(o, k, v) == [op |-> o, idx |-> k, val |-> v]

\* a store to url_buffer[k]; a store outside the array lands in the
\* neighbouring memory and leaves the array as it was
Store(buf, k, b) == IF k \in DOMAIN buf THEN [buf EXCEPT ![k] = b] ELSE buf

Emit(c, e) == trace' = [trace EXCEPT ![c] = Append(@, e)]

Goto(c, label) == pc' = [pc EXCEPT ![c] = label]

\* the host runs one export call at a time
HostIdle == \A d \in Copies : pc[d] \in {"idle", "returned", "trapped"}

\* ------------------------------------------------- src/src/c_bridge.c
\* variant: the cap is the buffer size, one more than the data capacity
CopyLengthCapBufSize(n) == IF n < BufSize THEN n ELSE BufSize

\* url_length < 255 ? url_length : 255
CopyLength(n) == IF n < Cap THEN n ELSE Cap

\* variant: the loop runs one index too far
LoopCondInclusive(k, n) == k <= n

\* i < copy_length
LoopCond(k, n) == k < n

\* variant: a saturating conversion instead of the truncating cast
NarrowSaturate(u) == IF u > 255 THEN 255 ELSE u

\* (char)code_unit: the byte stored is the low 8 bits of the int
Narrow(u) == u % 256

\* the host calls the export; url_buffer is laid over uninitialised stack
Enter ==
  /\ pc["core"] = "idle"
  /\ HostIdle
  /\ \E g \in GarbageBytes :
       url_buffer' = [url_buffer EXCEPT !["core"] = [k \in 0..(BufSize - 1) |-> g]]
  /\ Goto("core", "length")
  /\ UNCHANGED <<url_ref, url_length, copy_length, i, trace, sinkCalls>>

\* int url_length = js_string_length(url_ref);
QueryLength ==
  /\ pc["core"] = "length"
  /\ url_length' = [url_length EXCEPT !["core"] = js_string_length(url_ref)]
  /\ Emit("core", Event("length", 0, js_string_length(url_ref)))
  /\ Goto("core", "min")
  /\ UNCHANGED <<url_ref, copy_length, i, url_buffer, sinkCalls>>

\* int copy_length = ...; for (int i = 0; ...
ComputeCopyLength ==
  /\ pc["core"] = "min"
  /\ copy_length' = [copy_length EXCEPT !["core"] = CopyLength(url_length["core"])]
  /\ i' = [i EXCEPT !["core"] = 0]
  /\ Goto("core", "loop")
  /\ UNCHANGED <<url_ref, url_length, url_buffer, trace, sinkCalls>>

\* variant: the loop asks the host for the length again on every iteration
LoopBodyRequery ==
  /\ pc["core"] = "loop"
  /\ LoopCond(i["core"], copy_length["core"])
  /\ LET k == i["core"]
         u == js_string_charCodeAt(url_ref, k)
     IN /\ url_buffer' = [url_buffer EXCEPT !["core"] = Store(@, k, Narrow(u))]
        /\ trace' = [trace EXCEPT !["core"] =
                       @ \o <<Event("length", 0, js_string_length(url_ref)),
                              Event("char_at", k, u), Event("write", k, Narrow(u))>>]
        /\ i' = [i EXCEPT !["core"] = k + 1]
  /\ UNCHANGED <<url_ref, pc, url_length, copy_length, sinkCalls>>

\* url_buffer[i] = (char)js_string_charCodeAt(url_ref, i); i++
LoopBody ==
  /\ pc["core"] = "loop"
  /\ LoopCond(i["core"], copy_length["core"])
  /\ LET k == i["core"]
         u == js_string_charCodeAt(url_ref, k)
     IN IF InString(url_ref, k)
        THEN /\ url_buffer' = [url_buffer EXCEPT !["core"] = Store(@, k, Narrow(u))]
             /\ trace' = [trace EXCEPT !["core"] =
                            @ \o <<Event("char_at", k, u), Event("write", k, Narrow(u))>>]
             /\ i' = [i EXCEPT !["core"] = k + 1]
             /\ UNCHANGED pc
        ELSE /\ Emit("core", Event("char_at", k, u))
             /\ Goto("core", "trapped")
             /\ UNCHANGED <<i, url_buffer>>
  /\ UNCHANGED <<url_ref, url_length, copy_length, sinkCalls>>

\* the loop condition fails
LoopExit ==
  /\ pc["core"] = "loop"
  /\ ~LoopCond(i["core"], copy_length["core"])
  /\ Goto("core", "term")
  /\ UNCHANGED <<url_ref, url_length, copy_length, i, url_buffer, trace, sinkCalls>>

\* variant: the terminator goes to the last byte of the buffer
TerminateAtEnd ==
  /\ pc["core"] = "term"
  /\ url_buffer' = [url_buffer EXCEPT !["core"] = Store(@, BufSize - 1, 0)]
  /\ Emit("core", Event("write", BufSize - 1, 0))
  /\ Goto("core", "sink")
  /\ UNCHANGED <<url_ref, url_length, copy_length, i, sinkCalls>>

\* url_buffer[copy_length] = '\0';
Terminate ==
  /\ pc["core"] = "term"
  /\ url_buffer' = [url_buffer EXCEPT !["core"] = Store(@, copy_length["core"], 0)]
  /\ Emit("core", Event("write", copy_length["core"], 0))
  /\ Goto("core", "sink")
  /\ UNCHANGED <<url_ref, url_length, copy_length, i, sinkCalls>>

\* the store of the terminator at an address outside linear memory traps
TerminateTrap ==
  /\ pc["core"] = "term"
  /\ copy_length["core"] \notin 0..(BufSize - 1)
  /\ Emit("core", Event("write", copy_length["core"], 0))
  /\ Goto("core", "trapped")
  /\ UNCHANGED <<url_ref, url_length, copy_length, i, url_buffer, sinkCalls>>

\* variant: the length handed over counts the terminator
CallSinkCountsTerminator ==
  /\ pc["core"] = "sink"
  /\ sinkCalls' = [sinkCalls EXCEPT !["core"] =
                     zig_install_externref(@, url_buffer["core"], copy_length["core"] + 1)]
  /\ Emit("core", Event("sink", 0, copy_length["core"] + 1))
  /\ Goto("core", "ret")
  /\ UNCHANGED <<url_ref, url_length, copy_length, i, url_buffer>>

\* variant: the hand-off only happens when the whole string fits, as in the
\* commented-out encodeStringIntoUTF8Array version
CallSinkIfFits ==
  /\ pc["core"] = "sink"
  /\ IF url_length["core"] < BufSize
     THEN /\ sinkCalls' = [sinkCalls EXCEPT !["core"] =
                     zig_install_externref(@, url_buffer["core"], copy_length["core"])]
          /\ Emit("core", Event("sink", 0, copy_length["core"]))
     ELSE UNCHANGED <<sinkCalls, trace>>
  /\ Goto("core", "ret")
  /\ UNCHANGED <<url_ref, url_length, copy_length, i, url_buffer>>

\* zig_install_externref(url_buffer, copy_length);
CallSink ==
  /\ pc["core"] = "sink"
  /\ sinkCalls' = [sinkCalls EXCEPT !["core"] =
                     zig_install_externref(@, url_buffer["core"], copy_length["core"])]
  /\ Emit("core", Event("sink", 0, copy_length["core"]))
  /\ Goto("core", "ret")
  /\ UNCHANGED <<url_ref, url_length, copy_length, i, url_buffer>>

\* the closing brace: control returns to the host
Return ==
  /\ pc["core"] = "ret"
  /\ Goto("core", "returned")
  /\ UNCHANGED <<url_ref, url_length, copy_length, i, url_buffer, trace, sinkCalls>>

\* --------------------------------------------- src/src/web/c_bridge.c
web_BufSize == 256
web_Cap == 255

\* variant: the web copy does not cap the length
web_CopyLengthNoCap(n) == n

web_CopyLength(n) == IF n < web_Cap THEN n ELSE web_Cap

web_LoopCond(k, n) == k < n

\* variant: the web copy keeps 7 bits
web_NarrowAscii(u) == u % 128

web_Narrow(u) == u % 256

web_Enter ==
  /\ pc["web"] = "idle"
  /\ HostIdle
  /\ \E g \in GarbageBytes :
       url_buffer' = [url_buffer EXCEPT !["web"] = [k \in 0..(web_BufSize - 1) |-> g]]
  /\ Goto("web", "length")
  /\ UNCHANGED <<url_ref, url_length, copy_length, i, trace, sinkCalls>>

web_QueryLength ==
  /\ pc["web"] = "length"
  /\ url_length' = [url_length EXCEPT !["web"] = js_string_length(url_ref)]
  /\ Emit("web", Event("length", 0, js_string_length(url_ref)))
  /\ Goto("web", "min")
  /\ UNCHANGED <<url_ref, copy_length, i, url_buffer, sinkCalls>>

web_ComputeCopyLength ==
  /\ pc["web"] = "min"
  /\ copy_length' = [copy_length EXCEPT !["web"] = web_CopyLength(url_length["web"])]
  /\ i' = [i EXCEPT !["web"] = 0]
  /\ Goto("web", "loop")
  /\ UNCHANGED <<url_ref, url_length, url_buffer, trace, sinkCalls>>

web_LoopBody ==
  /\ pc["web"] = "loop"
  /\ web_LoopCond(i["web"], copy_length["web"])
  /\ LET k == i["web"]
         u == js_string_charCodeAt(url_ref, k)
     IN IF InString(url_ref, k)
        THEN /\ url_buffer' = [url_buffer EXCEPT !["web"] = Store(@, k, web_Narrow(u))]
             /\ trace' = [trace EXCEPT !["web"] =
                            @ \o <<Event("char_at", k, u), Event("write", k, web_Narrow(u))>>]
             /\ i' = [i EXCEPT !["web"] = k + 1]
             /\ UNCHANGED pc
        ELSE /\ Emit("web", Event("char_at", k, u))
             /\ Goto("web", "trapped")
             /\ UNCHANGED <<i, url_buffer>>
  /\ UNCHANGED <<url_ref, url_length, copy_length, sinkCalls>>

web_LoopExit ==
  /\ pc["web"] = "loop"
  /\ ~web_LoopCond(i["web"], copy_length["web"])
  /\ Goto("web", "term")
  /\ UNCHANGED <<url_ref, url_length, copy_length, i, url_buffer, trace, sinkCalls>>

web_Terminate ==
  /\ pc["web"] = "term"
  /\ url_buffer' = [url_buffer EXCEPT !["web"] = Store(@, copy_length["web"], 0)]
  /\ Emit("web", Event("write", copy_length["web"], 0))
  /\ Goto("web", "sink")
  /\ UNCHANGED <<url_ref, url_length, copy_length, i, sinkCalls>>

web_TerminateTrap ==
  /\ pc["web"] = "term"
  /\ copy_length["web"] \notin 0..(web_BufSize - 1)
  /\ Emit("web", Event("write", copy_length["web"], 0))
  /\ Goto("web", "trapped")
  /\ UNCHANGED <<url_ref, url_length, copy_length, i, url_buffer, sinkCalls>>

web_CallSink ==
  /\ pc["web"] = "sink"
  /\ sinkCalls' = [sinkCalls EXCEPT !["web"] =
                     zig_install_externref(@, url_buffer["web"], copy_length["web"])]
  /\ Emit("web", Event("sink", 0, copy_length["web"]))
  /\ Goto("web", "ret")
  /\ UNCHANGED <<url_ref, url_length, copy_length, i, url_buffer>>

web_Return ==
  /\ pc["web"] = "ret"
  /\ Goto("web", "returned")
  /\ UNCHANGED <<url_ref, url_length, copy_length, i, url_buffer, trace, sinkCalls>>

\* --------------------------------------------------------- specifications
Start ==
  /\ pc = [c \in Copies |-> "idle"]
  /\ url_length = [c \in Copies |-> 0]
  /\ copy_length = [c \in Copies |-> 0]
  /\ i = [c \in Copies |-> 0]
  /\ url_buffer = [c \in Copies |-> << >>]
  /\ trace = [c \in Copies |-> << >>]
  /\ sinkCalls = [c \in Copies |-> << >>]

\* the host passes a string whose reported length is its number of code units
Init == url_ref \in HostStrings /\ Start

Next ==
  \/ Enter \/ QueryLength \/ ComputeCopyLength \/ LoopBody \/ LoopExit
  \/ Terminate \/ CallSink \/ Return
  \/ web_Enter \/ web_QueryLength \/ web_ComputeCopyLength \/ web_LoopBody
  \/ web_LoopExit \/ web_Terminate \/ web_CallSink \/ web_Return

Spec == Init /\ [][Next]_vars

\* the code runs to its return: no step of install_externref waits on anything
\* but the host calls, which return
LiveSpec == Spec /\ WF_vars(Next)

\* the length import may report any int, negative ones included
InitInt == url_ref \in (HostStrings \cup BadHostStrings) /\ Start

NextInt == Next \/ TerminateTrap \/ web_TerminateTrap

SpecInt == InitInt /\ [][NextInt]_vars


\* ------------------------------------------------------------- properties
\* the number of code units of the host string, and the data length it calls for
L == Len(url_ref.units)

Expected == IF L <= 255 THEN L ELSE 255

Low8(u) == u - 256 * (u \div 256)

Ops(c, o) == SelectSeq(trace[c], LAMBDA e : e.op = o)

Past(c, labels) == pc[c] \in labels

\* C1: the data handed to the sink has length min(L, 255) and its byte at
\* index k is the low 8 bits of code unit k of the host string, for every k
\* below that length; code units >= 0x100 are narrowed to their low 8 bits.
C1_SinkDataIsNarrowedPrefix ==
  \A c \in Copies : \A n \in 1..Len(sinkCalls[c]) :
    LET s == sinkCalls[c][n]
    IN /\ s.count = Expected
       /\ \A k \in 0..(Expected - 1) : s.data[k] = Low8(url_ref.units[k + 1])

C1_Witness ==
  \E c \in Copies :
    /\ Len(sinkCalls[c]) = 1
    /\ L > Cap
    /\ \E k \in 0..(Cap - 1) :
         /\ url_ref.units[k + 1] >= 256
         /\ sinkCalls[c][1].data[k] = url_ref.units[k + 1] % 256

\* C2: the sink is invoked exactly once per call, before the call returns,
\* with byte_count = min(L, 255); the empty string gives byte_count 0.
C2_SinkOncePerCall ==
  \A c \in Copies :
    /\ Len(sinkCalls[c]) <= 1
    /\ Past(c, {"ret", "returned"}) =>
         /\ Len(sinkCalls[c]) = 1
         /\ sinkCalls[c][1].count = Expected
    /\ Past(c, {"idle", "length", "min", "loop", "term", "sink"}) =>
         Len(sinkCalls[c]) = 0

C2_Witness ==
  \E c \in Copies :
    /\ pc[c] = "returned"
    /\ L = 0
    /\ Len(sinkCalls[c]) = 1
    /\ sinkCalls[c][1].count = 0

\* C3: when the sink is invoked, the buffer byte at index byte_count is 0x00,
\* whatever the length and contents of the host string.
C3_TerminatedAtSink ==
  \A c \in Copies : \A n \in 1..Len(sinkCalls[c]) :
    LET s == sinkCalls[c][n]
    IN /\ s.count \in DOMAIN s.data
       /\ s.data[s.count] = 0

\* the terminator replaced a non-zero stack byte, after a non-zero data byte
C3_Witness ==
  \E c \in Copies :
    /\ Len(sinkCalls[c]) = 1
    /\ L \in 1..(Cap - 1)
    /\ sinkCalls[c][1].data[L - 1] # 0
    /\ sinkCalls[c][1].data[L + 1] # 0
    /\ sinkCalls[c][1].data[L] = 0

\* C4: every index passed to char_at lies in [0, min(L, 255)), and a call
\* makes exactly min(L, 255) char_at queries.
C4_CharAtInRange ==
  \A c \in Copies :
    LET q == Ops(c, "char_at")
    IN /\ \A n \in 1..Len(q) : q[n].idx >= 0 /\ q[n].idx < L /\ q[n].idx < 255
       /\ Len(q) <= Expected
       /\ Past(c, {"term", "sink", "ret", "returned"}) => Len(q) = Expected

C4_Witness ==
  \E c \in Copies :
    /\ pc[c] = "returned"
    /\ L > Cap + 1
    /\ Len(Ops(c, "char_at")) = Cap

\* C5: once computed, copy_length is in 0..255, and every write into the
\* 256-byte buffer, data or terminator, targets an index in 0..255.
C5_BufferBounds ==
  \A c \in Copies :
    /\ Past(c, {"loop", "term", "sink", "ret", "returned"}) =>
         copy_length[c] >= 0 /\ copy_length[c] <= 255
    /\ LET w == Ops(c, "write")
       IN \A n \in 1..Len(w) : w[n].idx >= 0 /\ w[n].idx <= 255

\* the terminator is written at index 255, the last byte of the buffer
C5_Witness ==
  \E c \in Copies :
    /\ pc[c] = "sink"
    /\ copy_length[c] = 255
    /\ trace[c][Len(trace[c])] = Event("write", 255, 0)

\* C6: a host string of more than 255 code units is no error path: no trap,
\* the terminator is written, and the sink is called exactly once with
\* byte_count 255 and the first 255 narrowed code units.
C6_OversizedIsTruncated ==
  L > 255 =>
    \A c \in Copies :
      /\ pc[c] # "trapped"
      /\ Past(c, {"ret", "returned"}) =>
           /\ Len(sinkCalls[c]) = 1
           /\ sinkCalls[c][1].count = 255
           /\ \A k \in 0..254 : sinkCalls[c][1].data[k] = Low8(url_ref.units[k + 1])
           /\ sinkCalls[c][1].data[255] = 0
           /\ Len(Ops(c, "sink")) = 1

C6_Witness ==
  \E c \in Copies :
    /\ L > Cap + MaxOver
    /\ pc[c] = "returned"
    /\ Len(sinkCalls[c]) = 1
    /\ sinkCalls[c][1].count = Cap

AllReturned == \A c \in Copies : pc[c] = "returned"

\* C7: every call reaches its return point, and the loop counter never
\* exceeds 255 (at most 255 iterations).
C7_Terminates ==
  /\ <>AllReturned
  /\ [](\A c \in Copies : i[c] <= 255 /\ Len(Ops(c, "char_at")) <= 255)

C7_Witness ==
  /\ AllReturned
  /\ \A c \in Copies : i[c] = Cap /\ Len(Ops(c, "char_at")) = Cap

\* a store that does not directly follow its char_at query is the terminator
IsTerminator(t, p) == t[p].op = "write" /\ (p = 1 \/ t[p - 1].op # "char_at")

\* C8: one call's events are in a fixed order: the length query once and
\* first; char_at at 0, 1, ... in ascending order, each index once, each
\* followed by its store; the terminator after all data bytes; the sink after
\* the terminator, and nothing after the sink.
C8_EventOrder ==
  \A c \in Copies :
    LET t == trace[c]
        q == Ops(c, "char_at")
    IN /\ t # << >> => t[1].op = "length"
       /\ \A p \in 2..Len(t) : t[p].op # "length"
       /\ \A n \in 1..Len(q) : q[n].idx = n - 1
       /\ \A p \in 1..Len(t) :
            /\ t[p].op = "char_at" =>
                 p < Len(t) /\ t[p + 1].op = "write" /\ t[p + 1].idx = t[p].idx
            /\ IsTerminator(t, p) =>
                 /\ t[p].idx = copy_length[c]
                 /\ Len(SelectSeq(SubSeq(t, 1, p), LAMBDA e : e.op = "char_at"))
                      = copy_length[c]
                 /\ \A r \in (p + 1)..Len(t) : t[r].op = "sink"
            /\ t[p].op = "sink" => p = Len(t) /\ p > 1 /\ IsTerminator(t, p - 1)
       /\ pc[c] = "returned" =>
            /\ Len(Ops(c, "length")) = 1
            /\ Len(Ops(c, "sink")) = 1
            /\ Len(q) = copy_length[c]

C8_Witness ==
  \E c \in Copies :
    /\ pc[c] = "returned"
    /\ L = MaxShort
    /\ Len(trace[c]) = 2 * L + 3

\* the host queries of a call, in order
Queries(c) == SelectSeq(trace[c], LAMBDA e : e.op \in {"length", "char_at"})

\* C9: the two copies of install_externref are equivalent: on the same host
\* string they make the same host queries in the same order, leave the same
\* bytes at indices 0..copy_length and pass the same arguments to the sink.
C9_CopiesEquivalent ==
  AllReturned =>
    /\ Queries("core") = Queries("web")
    /\ copy_length["core"] = copy_length["web"]
    /\ \A k \in 0..copy_length["core"] : url_buffer["core"][k] = url_buffer["web"][k]
    /\ Len(sinkCalls["core"]) = Len(sinkCalls["web"])
    /\ \A n \in 1..Len(sinkCalls["core"]) :
         /\ sinkCalls["core"][n].count = sinkCalls["web"][n].count
         /\ \A k \in 0..sinkCalls["core"][n].count :
              sinkCalls["core"][n].data[k] = sinkCalls["web"][n].data[k]

\* both copies ran on a string with units above 0x7F, over different garbage
C9_Witness ==
  /\ AllReturned
  /\ L = MaxShort
  /\ \E k \in 1..L : url_ref.units[k] > 127
  /\ url_buffer["core"][Cap] # url_buffer["web"][Cap]

\* C10: whatever int the length import returns, negative values included, the
\* index of the terminator store and the byte_count passed to the sink lie in
\* 0..255.
C10_BoundsForAnyInt ==
  \A c \in Copies :
    /\ \A p \in 1..Len(trace[c]) :
         IsTerminator(trace[c], p) => trace[c][p].idx \in 0..255
    /\ \A n \in 1..Len(sinkCalls[c]) : sinkCalls[c][n].count \in 0..255
====
